---- MODULE Spec2Model ----
(***************************************************************************)
(* Build-rule engine of science-build-rules: the Singularity and Anaconda  *)
(* plan generators, the installed-state documents they read and rewrite,   *)
(* and the in-order, stop-at-first-failure execution of a generated plan.  *)
(*                                                                         *)
(* A Python dict is a function whose DOMAIN is its key set; a path is the  *)
(* tuple of its components; names and tags contain no path separator.      *)
(***************************************************************************)
EXTENDS Integers, Sequences, FiniteSets, TLC

VARIABLES
    builder,    \* which builder this installation runs: "singularity" / "anaconda"
    config,     \* the configuration documents on disk
    store,      \* the installed-state document: [doc, items]
    files,      \* artifact files on disk (stage and install root)
    modfiles,   \* generated module files: module path -> content
    plan,       \* the rule list of the current run
    pc,         \* position of the next rule of the plan
    phase,      \* "idle" / "running" / "writing" / "described" /
                \* "described_again" / "generation_failed"
    installed_dict, \* the state map a running state update holds in memory
    prev,       \* the previous run: its configuration, plan and stopping point
    runs,       \* number of runs started
    cache,      \* source cache: installer path -> digest of the cached file
    confreader, \* the configuration documents the builder instance holds in memory
    tree,       \* directories and files below the stage, install and module roots
    prep,       \* the _prepare_installation_paths rule being executed and its history
    deployment_config, \* the list of deployment declarations
    deployers,  \* the Deployer objects deployer_factory has instantiated
    dphase,     \* position of deployer_factory and of its caller
    trace,      \* constructor steps performed so far, in order
    deploy_rules, \* the rules the deployers' get_rules returned
    swift       \* the _swift_deploy call in progress: its position and local values

pathvars == <<tree, prep>>

deployvars == <<deployment_config, deployers, dphase, trace, deploy_rules, swift>>

vars == <<builder, config, store, files, modfiles, plan, pc, phase, installed_dict, prev,
          runs, cache, confreader, pathvars, deployvars>>

\* ---------------------------------------------------------------- bounds
MaxRuns == 2
\* range of the modelled short checksum (the 8-character prefix)
SmallMod == 2

\* ---------------------------------------------------------------- dicts
Get(d, k, default) == IF k \in DOMAIN d THEN d[k] ELSE default

Update(a, b) == [k \in DOMAIN a \cup DOMAIN b |-> IF k \in DOMAIN b THEN b[k] ELSE a[k]]

Pop(d, k) == [x \in DOMAIN d \ {k} |-> d[x]]

Range(s) == {s[i] : i \in DOMAIN s}

RECURSIVE Flatten(_)
Flatten(ss) == IF ss = <<>> THEN <<>> ELSE Head(ss) \o Flatten(Tail(ss))

\* ---------------------------------------------------------------- checksums
StrCode(s) ==
    CASE s = "a" -> 1
      [] s = "b" -> 2
      [] s = "1" -> 1
      [] s = "2" -> 2
      [] s = "x" -> 3
      [] s = "y" -> 2
      [] OTHER -> 0

\* calculate_dict_checksum: a cryptographic hash of the canonical form of the
\* dict.  The digest is modelled by the hashed dict itself (no two dicts share
\* a digest) together with the leading characters it starts with, which two
\* different digests can share.
calculate_dict_checksum(d) ==
    [small |-> (StrCode(d.name) + StrCode(Get(d, "tag", Get(d, "version", "")))
                + StrCode(Get(d, "docker_image", ""))
                + Cardinality(DOMAIN d)) % SmallMod,
     full  |-> d]

\* checksum[:8]
checksum_small(checksum) == checksum.small

\* ---------------------------------------------------------------- rules
Rule(kind, op, blk, id, src, dst, info) ==
    [kind |-> kind, op |-> op, blk |-> blk, id |-> id, src |-> src, dst |-> dst,
     info |-> info]

\* os.path.join of a root directory, name, tag, sub-directory and file name
Path(root, name, tag, sub, file) ==
    [root |-> root, name |-> name, tag |-> tag, sub |-> sub, file |-> file]

NoPath == Path("", "", "", "", <<>>)
NoId == <<>>
NoInfo == [none |-> TRUE]

LoggingRule(op, blk, id) == Rule("Log", op, blk, id, NoPath, NoPath, NoInfo)

PythonRule(op, blk, id, src, dst, info) == Rule("Python", op, blk, id, src, dst, info)

SubprocessRule(op, blk, id, src, dst, info) == Rule("Process", op, blk, id, src, dst, info)

\* ---------------------------------------------------------------- Singularity
\* SingularityBuilder._get_path with the default path_config
SingPath(path_name) == Path(path_name, "", "", "", <<>>)

\* re.sub('_commands', '', key)
StripCommands(key) ==
    CASE key = "post_commands" -> "post"
      [] key = "environment_commands" -> "environment"
      [] key = "runscript_commands" -> "runscript"
      [] OTHER -> key

\* the loop of lines 254-260: per section, the commands of the referenced
\* collections in the order the definition lists them
RECURSIVE CombineCommands(_, _)
CombineCommands(names, collections) ==
    IF names = <<>> THEN <<>>
    ELSE LET collection == collections[Head(names)]
             rest == CombineCommands(Tail(names), collections)
             keys == {StripCommands(k) : k \in DOMAIN collection} \cup DOMAIN rest
             Mine(kn) == IF \E k \in DOMAIN collection : StripCommands(k) = kn
                         THEN collection[CHOOSE k \in DOMAIN collection :
                                             StripCommands(k) = kn]
                         ELSE <<>>
         IN [kn \in keys |-> Mine(kn) \o Get(rest, kn, <<>>)]

\* the loop of lines 263-265
RECURSIVE CombineFlags(_, _)
CombineFlags(names, collections) ==
    IF names = <<>> THEN <<>>
    ELSE collections[Head(names)] \o CombineFlags(Tail(names), collections)

\* _get_image_config, lines 240-248: the defaults overlaid with the definition
\* (which no longer has 'tags')
ApplyDefaults(tag, definition_dict) ==
    Update([registry |-> "docker.io", docker_user |-> "library",
            docker_image |-> definition_dict.name, tag |-> tag], definition_dict)

\* _get_image_config, line 251
WithModuleName(c) == Update(c, [module_name |-> <<c.name, c.tag>>])

\* _get_image_config, lines 254-260
WithCommands(c, command_collections) ==
    Update(Pop(c, "command_collections"),
           [commands |-> CombineCommands(Get(c, "command_collections", <<>>),
                                         command_collections)])

\* _get_image_config, lines 267-268
WithChecksum(c, checksum) ==
    Update(c, [checksum |-> checksum, checksum_small |-> checksum_small(checksum)])

\* _get_image_config, lines 269-272
WithDerived(c, flags) ==
    Update(c, [nameformat |-> <<c.name, c.tag, c.checksum_small>>,
               docker_url |-> <<c.docker_user, c.docker_image, c.tag>>,
               flags |-> flags])

\* the dict that line 267 hashes: 'flag_collections' is popped in line 264
HashedConfig(tag, definition_dict, command_collections) ==
    Pop(WithCommands(WithModuleName(ApplyDefaults(tag, definition_dict)),
                     command_collections),
        "flag_collections")

\* faulty variant: only the name and the tag (version) reach the hash
Checksummed_NameOnly(c) ==
    WithChecksum(c, calculate_dict_checksum(
                        [name |-> c.name,
                         tag |-> Get(c, "tag", Get(c, "version", ""))]))

\* lines 267-268 (anaconda.py:139-140): the checksum of the whole dict
Checksummed(c) == WithChecksum(c, calculate_dict_checksum(c))

\* faulty variant: the combined flags are in the dict when it is checksummed
_get_image_config_FlagsHashed(tag, definition_dict, command_collections, flag_collections) ==
    WithDerived(WithChecksum(HashedConfig(tag, definition_dict, command_collections),
                             calculate_dict_checksum(
                                 Update(HashedConfig(tag, definition_dict,
                                                     command_collections),
                                        [flags |-> CombineFlags(
                                            Get(definition_dict, "flag_collections", <<>>),
                                            flag_collections)]))),
                CombineFlags(Get(definition_dict, "flag_collections", <<>>),
                             flag_collections))

\* SingularityBuilder._get_image_config
_get_image_config(tag, definition_dict, command_collections, flag_collections) ==
    WithDerived(Checksummed(HashedConfig(tag, definition_dict, command_collections)),
                CombineFlags(Get(definition_dict, "flag_collections", <<>>),
                             flag_collections))

\* faulty variant: an installed image is rebuilt whatever its checksum (the skip
\* branch of lines 400-403 is lost)
Classify_NeverSkip(installed_images, module_name, checksum) ==
    IF module_name \notin DOMAIN installed_images
       \/ "checksum" \notin DOMAIN installed_images[module_name]
    THEN "fresh"
    ELSE "stale"

\* faulty variant: a target counts as installed as soon as an image of it lies in
\* the install root, whatever the state document says
Classify_ByImageFile(installed_images, module_name, checksum) ==
    IF \E f \in files : /\ f.root = "install_path" /\ f.sub = "images"
                        /\ f.name = module_name[1] /\ f.tag = module_name[2]
    THEN "unchanged"
    ELSE "fresh"

\* the three-way test of lines 385-403
Classify(installed_images, module_name, checksum) ==
    IF module_name \notin DOMAIN installed_images
       \/ "checksum" \notin DOMAIN installed_images[module_name]
    THEN "fresh"
    ELSE IF installed_images[module_name].checksum # checksum THEN "stale"
    ELSE "unchanged"

StatusOp(class) ==
    CASE class = "fresh" -> "not_installed"
      [] class = "stale" -> "marked_for_update"
      [] OTHER -> "already_installed"

\* faulty variant: the option is enabled when the key is absent
RemoveAfterUpdate_DefaultOn(general) == Get(general, "remove_after_update", TRUE)

\* lines 314-316: the option, disabled when the key is absent
RemoveAfterUpdate(general) == Get(general, "remove_after_update", FALSE)

\* faulty variant: the state update is appended before the copy rules
InstallOrder_RecordFirst(prepare, build, copies, record) ==
    prepare \o build \o record \o copies

\* lines 407-480: the rules of a target that is installed or updated, in the
\* order the code appends them
InstallOrder(prepare, build, copies, record) == prepare \o build \o copies \o record

\* faulty variant: the module-file rules are appended before the install rules
BlockOrder_ModuleFirst(status, install, modulefile, removal) ==
    status \o modulefile \o install \o removal

\* lines 405-493: the rules of one target, in the order the code appends them
BlockOrder(status, install, modulefile, removal) ==
    status \o install \o modulefile \o removal

\* faulty variant: the credentials of some registry are used when the target's
\* own registry has none
BuildEnv_AnyRegistry(auths, registry) ==
    IF DOMAIN auths = {} THEN [cache |-> TRUE]
    ELSE LET r == IF registry \in DOMAIN auths THEN registry
                  ELSE CHOOSE x \in DOMAIN auths : TRUE
         IN [cache |-> TRUE, username |-> auths[r].username,
             password |-> auths[r].password]

\* lines 377-383: a fresh copy of the default environment, with the username
\* and password of the target's registry when the credentials hold an entry
\* for it that is not empty
BuildEnv(auths, registry) ==
    IF registry \in DOMAIN auths /\ DOMAIN auths[registry] # {}
    THEN [cache |-> TRUE,
          username |-> auths[registry].username,
          password |-> auths[registry].password]
    ELSE [cache |-> TRUE]

\* body of the inner loop of _get_image_install_rules (lines 322-493) for the
\* blk-th target of the plan, config0 being what _get_image_config returned
ImageRulesFor(blk, tag, general, installed_images, auths, config0) ==
    LET nameformat == config0.nameformat
        commands == config0.commands
        module_name == config0.module_name
        popped == Pop(Pop(Pop(config0, "nameformat"), "commands"), "module_name")
        name == popped.name
        build_definition_path == Path("build_stage", name, tag, "definitions", <<>>)
        build_image_path == Path("build_stage", name, tag, "images", <<>>)
        stage_definition ==
            Path("build_stage", name, tag, "definitions", nameformat \o <<"def">>)
        stage_image == Path("build_stage", name, tag, "images", nameformat \o <<"simg">>)
        install_definition_path == Path("install_path", name, tag, "definitions", <<>>)
        install_image_path == Path("install_path", name, tag, "images", <<>>)
        install_definition ==
            Path("install_path", name, tag, "definitions", stage_definition.file)
        install_image == Path("install_path", name, tag, "images", stage_image.file)
        module_path == Path("module_path", name, "", "", <<>>)
        image_config == Update(popped, [definition_file |-> install_definition,
                                        image_file |-> install_image,
                                        module_path |-> module_path])
        buildenv == BuildEnv(auths, image_config.registry)
        class == Classify(installed_images, module_name, image_config.checksum)
        skip_install == class = "unchanged"
        update_install == class = "stale"
        remove_after_update == RemoveAfterUpdate(general)
        debug == Get(image_config, "debug", FALSE) \/ Get(general, "debug", FALSE)
        sudo == Get(image_config, "sudo", FALSE) \/ Get(general, "sudo", FALSE)
        fakeroot == Get(image_config, "fakeroot", FALSE) \/ Get(general, "fakeroot", FALSE)
        build_cmd == (IF sudo THEN <<"sudo">> ELSE <<>>) \o <<"singularity">> \o
                     (IF debug THEN <<"-d">> ELSE <<>>) \o <<"build">> \o
                     (IF fakeroot THEN <<"--fakeroot">> ELSE <<>>)
        Py(op, src, dst, info) == PythonRule(op, blk, module_name, src, dst, info)
        prepare ==
            << Py("makedirs", NoPath, build_definition_path, NoInfo),
               Py("makedirs", NoPath, build_image_path, NoInfo),
               Py("makedirs", NoPath, install_definition_path, NoInfo),
               Py("makedirs", NoPath, install_image_path, NoInfo),
               Py("makedirs", NoPath, module_path, NoInfo),
               LoggingRule("writing_definition", blk, module_name),
               Py("_write_definition_file", NoPath, stage_definition,
                  [registry |-> image_config.registry,
                   docker_url |-> image_config.docker_url, commands |-> commands]) >>
        build ==
            << LoggingRule("building", blk, module_name),
               SubprocessRule("singularity_build", blk, module_name, stage_definition,
                              stage_image, [cmd |-> build_cmd, env |-> buildenv]) >>
            \o (IF sudo
                THEN << SubprocessRule("chown", blk, module_name, NoPath, stage_image,
                                       [cmd |-> <<"sudo", "chown">>]) >>
                ELSE <<>>)
        copies ==
            << LoggingRule("copying_image", blk, module_name),
               Py("copy_file", stage_image, install_image, NoInfo),
               LoggingRule("copying_definition", blk, module_name),
               Py("copy_file", stage_definition, install_definition, NoInfo) >>
        record ==
            << LoggingRule("updating", blk, module_name),
               Py("_update_installed_images", NoPath, NoPath, image_config) >>
        modulefile ==
            << LoggingRule("writing_modulefile", blk, module_name),
               Py("_write_modulefile", NoPath, module_path,
                  [name |-> image_config.name, tag |-> image_config.tag,
                   flags |-> image_config.flags, image_file |-> install_image]) >>
        removal ==
            IF update_install /\ remove_after_update
            THEN << LoggingRule("removing", blk, module_name),
                    Py("os.remove", NoPath, installed_images[module_name].image_file,
                       NoInfo) >>
            ELSE <<>>
    IN BlockOrder(<< LoggingRule(StatusOp(class), blk, module_name) >>,
                  IF ~skip_install THEN InstallOrder(prepare, build, copies, record)
                  ELSE <<>>,
                  modulefile, removal)

\* lines 320-493: one pass of the inner loop
ImageRules(blk, tag, definition, conf, installed_images, auths) ==
    ImageRulesFor(blk, tag, conf.config, installed_images, auths,
                  _get_image_config(tag, definition, conf.command_collections,
                                    conf.flag_collections))

\* the targets in the order of the two nested loops of lines 318-319
RECURSIVE Targets(_)
Targets(definitions) ==
    IF definitions = <<>> THEN <<>>
    ELSE LET definition == Head(definitions)
         IN [i \in 1..Len(definition.tags) |->
                [tag |-> definition.tags[i], definition |-> Pop(definition, "tags")]]
            \o Targets(Tail(definitions))

\* SingularityBuilder._get_image_install_rules
_get_image_install_rules(conf, installed_images, auths) ==
    LET targets == Targets(conf.definitions)
    IN Flatten([blk \in 1..Len(targets) |->
                  ImageRules(blk, targets[blk].tag, targets[blk].definition, conf,
                             installed_images, auths)])

\* SingularityBuilder._get_directory_creation_rules
SingDirectoryRules ==
    Flatten([i \in 1..5 |->
        LET name == <<"tmpdir", "source_cache", "build_stage", "install_path",
                      "module_path">>[i]
        IN << LoggingRule("creating_directory", 0, NoId),
              PythonRule("makedirs", 0, NoId, NoPath, SingPath(name), NoInfo) >>])

\* faulty variant: no rule clears the module files
NoCleanRules == <<>>

\* SingularityBuilder._get_modulefile_clean_rules
_get_modulefile_clean_rules ==
    << LoggingRule("cleaning_modulefiles", 0, NoId),
       PythonRule("_clean_modules", 0, NoId, NoPath, NoPath, NoInfo) >>

\* SingularityBuilder._get_rules
SingGetRules(conf, installed_images, auths) ==
    SingDirectoryRules \o _get_modulefile_clean_rules
    \o _get_image_install_rules(conf, installed_images, auths)

\* ---------------------------------------------------------------- Anaconda
\* _create_environment_config, lines 127-137
EnvironmentDefaults(environment_dict) ==
    Update([miniconda |-> TRUE, python_version |-> 3, installer_version |-> "latest",
            pip_packages |-> <<>>, conda_packages |-> <<>>], environment_dict)

WithEnvironmentName(c) == Update(c, [environment_name |-> <<c.name, c.version>>])

\* AnacondaBuilder._create_environment_config
_create_environment_config(environment_dict) ==
    Checksummed(WithEnvironmentName(EnvironmentDefaults(environment_dict)))

\* AnacondaBuilder._get_installer_path
_get_installer_path(install_config) ==
    Path("source_cache", "", "", "",
         << IF install_config.miniconda THEN "Miniconda" ELSE "Anaconda",
            install_config.python_version, "-", install_config.installer_version,
            "-Linux-x86_64.sh" >>)

\* AnacondaBuilder._get_stage_path
_get_stage_path(c) == Path("build_stage", "", "", "", <<c.name, c.version, c.checksum_small>>)

\* AnacondaBuilder._get_install_path
_get_install_path(c) == Path("install_path", c.name, c.version, "", <<c.checksum_small>>)

\* AnacondaBuilder._get_module_path
_get_module_path(c) == Path("module_path", c.name, "", "", <<>>)

\* body of the loop of _get_environment_install_rules (lines 276-330) for the
\* blk-th environment, c being what _create_environment_config returned
EnvironmentRulesFor(blk, c, installed_environments) ==
    LET installer == _get_installer_path(c)
        stage_path == _get_stage_path(c)
        install_path == _get_install_path(c)
        module_path == _get_module_path(c)
        id == c.environment_name
        fresh ==
            IF id \notin DOMAIN installed_environments
            THEN << LoggingRule("not_found", blk, id),
                    PythonRule("_download_installer", blk, id, NoPath, installer, c),
                    PythonRule("_prepare_installation_paths", blk, id, NoPath, stage_path,
                               [install_path |-> install_path,
                                module_path |-> module_path]),
                    SubprocessRule("installer", blk, id, installer, stage_path, NoInfo) >>
            ELSE <<>>
        packages ==
            << LoggingRule("verifying_condarc", blk, id),
               PythonRule("_verify_condarc", blk, id, NoPath, install_path, NoInfo) >>
            \o (IF Get(c, "conda_packages", <<>>) # <<>>
                THEN << SubprocessRule("conda_install", blk, id, NoPath, stage_path,
                                       [packages |-> c.conda_packages]) >>
                ELSE <<>>)
    IN InstallOrder(fresh, packages,
                    << PythonRule("_copy_dir", blk, id, stage_path, install_path, NoInfo) >>,
                    << PythonRule("_update_installed_environments", blk, id, NoPath,
                                  NoPath, c) >>)

\* lines 274-330: one pass of the loop
EnvironmentRules(blk, environment, installed_environments) ==
    EnvironmentRulesFor(blk, _create_environment_config(environment),
                        installed_environments)

\* AnacondaBuilder._get_environment_install_rules
_get_environment_install_rules(conf, installed_environments) ==
    Flatten([blk \in 1..Len(conf.environments) |->
                EnvironmentRules(blk, conf.environments[blk], installed_environments)])

\* AnacondaBuilder._get_directory_creation_rules
CondaDirectoryRules ==
    Flatten([i \in 1..4 |->
        LET name == <<"source_cache", "build_stage", "install_path", "module_path">>[i]
        IN << LoggingRule("creating_directory", 0, NoId),
              PythonRule("makedirs", 0, NoId, NoPath, Path(name, "", "", "", <<>>),
                         NoInfo) >>])

\* AnacondaBuilder._get_rules
CondaGetRules(conf, installed_environments) ==
    CondaDirectoryRules \o _get_environment_install_rules(conf, installed_environments)

\* Builder: the plan of the configured builder from the loaded state map
GetRules(b, conf, installed) ==
    IF b = "singularity" THEN SingGetRules(conf, installed, conf.auths)
    ELSE CondaGetRules(conf, installed)

\* ---------------------------------------------------------------- configurations
EmptyDict == <<>>

SingConf(general, definitions) ==
    [config |-> general, definitions |-> definitions,
     command_collections |-> [base |-> [post_commands |-> <<"apt">>]],
     flag_collections |-> [gpu |-> <<"--nv">>],
     auths |-> EmptyDict]

DefA1 == [name |-> "a", tags |-> <<"1">>]
DefA1x == [name |-> "a", tags |-> <<"1">>, docker_image |-> "x"]
DefA1y == [name |-> "a", tags |-> <<"1">>, docker_image |-> "y",
           command_collections |-> <<"base">>]
DefA12 == [name |-> "a", tags |-> <<"1", "2">>, flag_collections |-> <<"gpu">>]
DefA11 == [name |-> "a", tags |-> <<"1", "1">>]
DefB1 == [name |-> "b", tags |-> <<"1">>, sudo |-> TRUE]
DefA1s == [name |-> "a", tags |-> <<"1">>, sudo |-> FALSE]
DefA2g == [name |-> "a", tags |-> <<"2">>, flag_collections |-> <<"gpu">>]
DefQ == [name |-> "a", tags |-> <<"1">>, registry |-> "quay.io"]
DefG == [name |-> "b", tags |-> <<"1">>, registry |-> "ghcr.io"]

\* the 'auths' map of a credentials document: a pair for each of two registries
Auths ==
    [registry \in {"docker.io", "quay.io"} |->
        IF registry = "quay.io" THEN [username |-> "uq", password |-> "pq"]
        ELSE [username |-> "ud", password |-> "pd"]]

\* the same configuration with a credentials document at auths_file
WithAuths(conf, auths) == [conf EXCEPT !.auths = auths]

\* the same configuration with another content of the flag collection
WithFlagCollections(conf, flag_collections) ==
    [conf EXCEPT !.flag_collections = flag_collections]

\* the configurations the Singularity installation moves between
SingConfigs ==
    { SingConf(EmptyDict, <<DefA1>>),
      SingConf([remove_after_update |-> TRUE], <<DefA1x>>),
      SingConf([remove_after_update |-> TRUE], <<DefA1y>>),
      SingConf([remove_after_update |-> FALSE], <<DefA1y>>),
      SingConf(EmptyDict, <<DefA12>>),
      SingConf([remove_after_update |-> TRUE], <<DefA1x, DefB1>>),
      SingConf(EmptyDict, <<DefB1>>),
      SingConf(EmptyDict, <<DefA11>>),
      SingConf([remove_after_update |-> TRUE], <<DefA1, DefA1y>>),
      SingConf(EmptyDict, <<DefA1, DefB1, DefA1>>),
      SingConf([sudo |-> TRUE], <<DefA1>>),
      SingConf([sudo |-> TRUE], <<DefA1s>>),
      SingConf(EmptyDict, <<DefA2g>>),
      WithFlagCollections(SingConf(EmptyDict, <<DefA2g>>),
                          [gpu |-> <<"--nv", "--bind">>]),
      WithAuths(SingConf(EmptyDict, <<DefQ, DefG>>), Auths) }

CondaConf(environments) == [environments |-> environments, installer_checksums |-> EmptyDict]

\* the same targets with an expected checksum for the Miniconda3 installer
WithInstallerChecksums(conf) ==
    [conf EXCEPT !.installer_checksums =
        (_get_installer_path(EnvironmentDefaults([name |-> "a", version |-> "1"])).file
            :> "good")]

EnvA1 == [name |-> "a", version |-> "1"]
EnvA1p == [name |-> "a", version |-> "1", conda_packages |-> <<"numpy">>]
EnvB1 == [name |-> "b", version |-> "1", miniconda |-> FALSE]

\* the configurations the Anaconda installation moves between
CondaConfigs ==
    { CondaConf(<<EnvA1>>), CondaConf(<<EnvA1p>>), CondaConf(<<EnvA1, EnvB1>>),
      CondaConf(<<EnvB1>>), CondaConf(<<EnvA1p, EnvB1>>),
      WithInstallerChecksums(CondaConf(<<EnvA1>>)) }

Configs(b) == IF b = "singularity" THEN SingConfigs ELSE CondaConfigs

\* configurations that are only reached by the single edits listed in Edits
EditedOnly ==
    { SingConf(EmptyDict, <<DefA1, DefB1, DefA1>>),
      SingConf([sudo |-> TRUE], <<DefA1>>),
      SingConf([sudo |-> TRUE], <<DefA1s>>),
      SingConf(EmptyDict, <<DefA2g>>),
      WithFlagCollections(SingConf(EmptyDict, <<DefA2g>>),
                          [gpu |-> <<"--nv", "--bind">>]),
      WithAuths(SingConf(EmptyDict, <<DefQ, DefG>>), Auths) }

\* single edits of the targets document: an option set to its default value,
\* the content of a referenced flag collection changed
Edits ==
    { {SingConf([sudo |-> TRUE], <<DefA1>>), SingConf([sudo |-> TRUE], <<DefA1s>>)},
      {SingConf(EmptyDict, <<DefA2g>>),
       WithFlagCollections(SingConf(EmptyDict, <<DefA2g>>),
                           [gpu |-> <<"--nv", "--bind">>])} }

\* the edits the operator makes between two runs
Edit(from, to) ==
    \/ from \notin EditedOnly /\ to \notin EditedOnly
    \/ {from, to} \in Edits

\* ---------------------------------------------------------------- execution
UpdateOps == {"_update_installed_images", "_update_installed_environments"}

CopyOps == {"copy_file", "_copy_dir"}

\* the module file _write_modulefile writes: module_path/<tag>.lua
ModuleFile(rule) ==
    Path(rule.dst.root, rule.dst.name, "", "", <<rule.info.tag, "lua">>)

\* faulty variant: an identifier the map already holds keeps its old record
SetEntry_KeepOld(items, image_name, installation_config) ==
    IF image_name \in DOMAIN items THEN items
    ELSE Update(items, (image_name :> installation_config))

\* installed_dict['images'][image_name] = installation_config (line 229; line
\* 240 in the Anaconda builder)
SetEntry(items, image_name, installation_config) ==
    Update(items, (image_name :> installation_config))

\* whether executing the rule in the current state can end without an error
CanSucceed(rule) ==
    CASE rule.op = "_write_modulefile" -> ModuleFile(rule) \notin DOMAIN modfiles
      [] rule.op = "os.remove" -> rule.dst \in files
      [] rule.op \in CopyOps -> rule.src \in files
      [] rule.op \in {"singularity_build", "installer"} -> rule.src \in files
      [] rule.op = "chown" -> rule.dst \in files
      [] rule.op \in UpdateOps -> store.doc # "truncated"
      [] OTHER -> TRUE

\* files on disk after the rule has run
FilesAfter(rule) ==
    CASE rule.op \in {"_write_definition_file", "singularity_build", "_download_installer",
                      "_prepare_installation_paths", "installer"} \cup CopyOps
            -> files \cup {rule.dst}
      [] rule.op = "os.remove" -> files \ {rule.dst}
      [] OTHER -> files

\* faulty variant: _clean_modules removes nothing
ModfilesAfter_NoClean(rule) ==
    CASE rule.op = "_write_modulefile" ->
            Update(modfiles, (ModuleFile(rule) :> rule.info))
      [] OTHER -> modfiles

\* module files after the rule has run (_write_modulefile, _clean_modules)
ModfilesAfter(rule) ==
    CASE rule.op = "_write_modulefile" ->
            Update(modfiles, (ModuleFile(rule) :> rule.info))
      [] rule.op = "_clean_modules" -> EmptyDict
      [] OTHER -> modfiles

\* no _swift_deploy call has started
NoSwift == [deployer |-> 0, stage |-> "idle", walk |-> <<>>, objects |-> <<>>,
            results |-> <<>>, events |-> <<>>]

\* no builder instance exists
NotLoaded == <<>>

\* an empty file system, and no path preparation rule
NoTree == [dirs |-> {}, files |-> {}]
NoPrep == [stage_path |-> <<>>, install_path |-> <<>>, module_path |-> <<>>,
           count |-> 0, fresh |-> FALSE, repeated |-> FALSE, cleaned |-> FALSE,
           before |-> NoTree]

\* lines 318-319: 'for tag in definition.pop('tags')' removes the key from each
\* definition of the documents the instance holds; the Anaconda generator
\* copies each environment and leaves the documents as loaded
AfterGeneration(b, conf) ==
    IF b = "singularity"
    THEN [conf EXCEPT !.definitions = [k \in 1..Len(@) |-> Pop(@[k], "tags")]]
    ELSE conf

\* line 319 raises KeyError for a definition without 'tags'
CanGenerate(b, conf) ==
    b = "singularity" => \A k \in 1..Len(conf.definitions) :
                            "tags" \in DOMAIN conf.definitions[k]

NoPrev == [result |-> "none", cfg |-> EmptyDict, plan |-> <<>>, stop |-> 0]

Init ==
    /\ builder \in {"singularity", "anaconda"}
    /\ config \in Configs(builder)
    /\ store = [doc |-> "absent", items |-> EmptyDict]
    /\ files = {}
    /\ modfiles = EmptyDict
    /\ plan = <<>>
    /\ pc = 1
    /\ phase = "idle"
    /\ installed_dict = EmptyDict
    /\ prev = NoPrev
    /\ runs = 0
    /\ cache = EmptyDict
    /\ confreader = NotLoaded
    /\ tree = NoTree
    /\ prep = NoPrep
    /\ deployment_config = <<>>
    /\ deployers = <<>>
    /\ dphase = "off"
    /\ trace = <<>>
    /\ deploy_rules = <<>>
    /\ swift = NoSwift

\* the operator edits the configuration between two runs
Reconfigure ==
    /\ phase = "idle"
    /\ runs < MaxRuns
    /\ \E c \in Configs(builder) : c # config /\ Edit(config, c) /\ config' = c
    /\ UNCHANGED <<deployvars, pathvars, cache, confreader, builder, store, files, modfiles, plan, pc, phase, installed_dict,
                   prev, runs>>

\* a builder process starts: it loads the state document and generates the plan
\* (_get_installed_images / _get_installed_environments, then _get_rules)
Generate ==
    /\ phase = "idle"
    /\ runs < MaxRuns
    /\ store.doc # "truncated"
    /\ plan' = GetRules(builder, config, store.items)
    /\ pc' = 1
    /\ phase' = "running"
    /\ runs' = runs + 1
    /\ confreader' = AfterGeneration(builder, config)
    /\ UNCHANGED <<deployvars, pathvars, cache, builder, config, store, files, modfiles, installed_dict, prev>>

\* the builder is run as a script (__main__): it loads the state document,
\* generates the plan and describes it; no rule is executed
Describe ==
    /\ phase = "idle"
    /\ store.doc # "truncated"
    /\ plan' = GetRules(builder, config, store.items)
    /\ pc' = 1
    /\ phase' = "described"
    /\ confreader' = AfterGeneration(builder, config)
    /\ UNCHANGED <<deployvars, pathvars, cache, builder, config, store, files, modfiles, installed_dict, prev, runs>>

\* _get_rules is called once more on the same instance, from the documents
\* the instance holds
DescribeAgain ==
    /\ phase = "described"
    /\ IF CanGenerate(builder, confreader)
       THEN /\ plan' = GetRules(builder, confreader, store.items)
            /\ phase' = "described_again"
            /\ confreader' = AfterGeneration(builder, confreader)
       ELSE /\ plan' = <<>>
            /\ phase' = "generation_failed"
            /\ UNCHANGED confreader
    /\ UNCHANGED <<deployvars, pathvars, cache, builder, config, store, files, modfiles, pc, installed_dict, prev, runs>>

\* the describing process exits
Exit ==
    /\ phase \in {"described", "described_again", "generation_failed"}
    /\ plan' = <<>>
    /\ phase' = "idle"
    /\ confreader' = NotLoaded
    /\ UNCHANGED <<deployvars, pathvars, cache, builder, config, store, files, modfiles, pc, installed_dict, prev, runs>>

\* the state document exists but holds no map: load gives None and the
\* subscript in line 312 (266) raises before any rule exists
GenerateFails ==
    /\ phase = "idle"
    /\ runs < MaxRuns
    /\ store.doc = "truncated"
    /\ runs' = runs + 1
    /\ prev' = [result |-> "no_plan", cfg |-> config, plan |-> <<>>, stop |-> 0]
    /\ plan' = <<>>
    /\ pc' = 1
    /\ UNCHANGED <<deployvars, pathvars, cache, confreader, builder, config, store, files, modfiles, phase, installed_dict>>

\* the rule at pc runs to its end (every rule but the state update)
Execute ==
    /\ phase = "running"
    /\ pc <= Len(plan)
    /\ plan[pc].op \notin UpdateOps \cup {"_download_installer"}
    /\ CanSucceed(plan[pc])
    /\ files' = FilesAfter(plan[pc])
    /\ modfiles' = ModfilesAfter(plan[pc])
    /\ pc' = pc + 1
    /\ UNCHANGED <<deployvars, pathvars, cache, confreader, builder, config, store, plan, phase, installed_dict, prev, runs>>

\* what a cached installer file can hold: the released installer or anything else
Digests == {"good", "bad"}

\* line 173: build_config.get('installer_checksums', {}).get(installer, '')
ExpectedChecksum(conf, installer) ==
    Get(Get(conf, "installer_checksums", EmptyDict), installer.file, "")

\* lines 165-171 of _download_installer: the installer is fetched into the
\* source cache unless a file of that name is already there
CacheAfter(installer, downloaded) ==
    IF installer \in DOMAIN cache THEN cache
    ELSE Update(cache, (installer :> downloaded))

\* faulty variant: the cached file is not compared with the expected checksum
InstallerVerified_Unchecked(conf, installer, cached) == TRUE

\* lines 174-187 of _download_installer: the cached file passes when no checksum
\* is expected or the calculated one equals it
InstallerVerified(conf, installer, cached) ==
    \/ ExpectedChecksum(conf, installer) = ""
    \/ cached[installer] = ExpectedChecksum(conf, installer)

\* the rule at pc is _download_installer: it fetches the installer if it is not
\* cached, then verifies the cached file; a mismatch raises and the run stops
Download ==
    /\ phase = "running"
    /\ pc <= Len(plan)
    /\ plan[pc].op = "_download_installer"
    /\ \E downloaded \in Digests :
          /\ cache' = CacheAfter(plan[pc].dst, downloaded)
          /\ files' = files \cup {plan[pc].dst}
          /\ IF InstallerVerified(config, plan[pc].dst, cache')
             THEN /\ pc' = pc + 1
                  /\ UNCHANGED <<plan, phase, prev, confreader>>
             ELSE /\ prev' = [result |-> "failed", cfg |-> config, plan |-> plan,
                               stop |-> pc]
                  /\ plan' = <<>>
                  /\ pc' = 1
                  /\ phase' = "idle"
                  /\ confreader' = NotLoaded
    /\ UNCHANGED <<deployvars, pathvars, builder, config, store, modfiles, installed_dict, runs>>

\* _update_installed_images / _update_installed_environments up to the open():
\* the document is loaded, the entry is set in memory, open(.., 'w') empties the file
UpdateOpen ==
    /\ phase = "running"
    /\ pc <= Len(plan)
    /\ plan[pc].op \in UpdateOps
    /\ CanSucceed(plan[pc])
    /\ installed_dict' = SetEntry(store.items, plan[pc].id, plan[pc].info)
    /\ store' = [doc |-> "truncated", items |-> EmptyDict]
    /\ phase' = "writing"
    /\ UNCHANGED <<deployvars, pathvars, cache, confreader, builder, config, files, modfiles, plan, pc, prev, runs>>

\* the rest of the state update: the dump of the whole map is written and the
\* file closed
UpdateWrite ==
    /\ phase = "writing"
    /\ store' = [doc |-> "written", items |-> installed_dict]
    /\ installed_dict' = EmptyDict
    /\ phase' = "running"
    /\ pc' = pc + 1
    /\ UNCHANGED <<deployvars, pathvars, cache, confreader, builder, config, files, modfiles, plan, prev, runs>>

EndRun(result) ==
    /\ prev' = [result |-> result, cfg |-> config, plan |-> plan, stop |-> pc]
    /\ plan' = <<>>
    /\ pc' = 1
    /\ phase' = "idle"
    /\ installed_dict' = EmptyDict
    /\ confreader' = NotLoaded
    /\ UNCHANGED <<deployvars, pathvars, cache, builder, config, store, files, modfiles, runs>>

\* the rule at pc raises or exits non-zero: the run stops there
Fail ==
    /\ phase = "running"
    /\ pc <= Len(plan)
    /\ plan[pc].kind # "Log"
    /\ EndRun("failed")

\* the process is killed: between two rules, or inside a state update after
\* the open() and before the write
Interrupt ==
    /\ \/ phase = "running" /\ pc <= Len(plan)
       \/ phase = "writing"
    /\ EndRun(IF phase = "writing" THEN "killed_in_write" ELSE "killed")

\* every rule of the plan has run
Finish ==
    /\ phase = "running"
    /\ pc = Len(plan) + 1
    /\ EndRun("ok")

Next ==
    \/ Reconfigure
    \/ Generate
    \/ GenerateFails
    \/ Describe
    \/ DescribeAgain
    \/ Exit
    \/ Execute
    \/ Download
    \/ UpdateOpen
    \/ UpdateWrite
    \/ Fail
    \/ Interrupt
    \/ Finish

Spec == Init /\ [][Next]_vars

\* ---------------------------------------------------------------- deployment
\* longest list of deployment declarations
MaxDeclarations == 3
\* executions of _prepare_installation_paths on one file system
MaxPrepares == 3

\* Python's None
None == "None"

\* truth value of a string or None in a condition
Truthy(value) == value # "" /\ value # None

\* one argument of a command line: the option and the values formatted into it
Arg(opt, val) == [opt |-> opt, val |-> val]

\* jsonschema validate against a schema with these required properties
Validates(instance, required) == required \subseteq DOMAIN instance

\* DEPLOYMENTCONFIG_SCHEMA: every item is an object with a 'method'
DeploymentConfigValid(declarations) ==
    \A i \in 1..Len(declarations) : Validates(declarations[i], {"method"})

\* RsyncDeployer.DEPLOYER_SCHEMA, SwiftDeployer.DEPLOYER_SCHEMA: 'required'
DeployerRequired(method) ==
    IF method = "rsync" THEN {"method", "target_host", "source", "dest"}
    ELSE {"method", "dest_container", "source", "os_secrets_file"}

\* SwiftDeployer.OS_SECRETS_SCHEMA: 'required'
SecretsRequired == {"os_username", "os_password", "os_project_name", "os_auth_url"}

\* deployer_classes of deployer_factory
deployer_classes == {"rsync", "swift"}

\* the secrets files on disk and what yaml.load reads from them
SecretsOnDisk ==
    [secrets_yml |-> [os_username |-> "u", os_password |-> "p",
                      os_project_name |-> "n", os_auth_url |-> "url"],
     broken_yml |-> [os_username |-> "u"]]

RsyncPlain == [method |-> "rsync", target_host |-> "h", source |-> "/s", dest |-> "/d"]
RsyncDelete == [method |-> "rsync", target_host |-> "h", source |-> "/s", dest |-> "/d",
                delete |-> TRUE, chmod_options |-> "Dg+s"]
RsyncCwd == [method |-> "rsync", target_host |-> "h", source |-> "/w/s", dest |-> "/d",
             delete |-> FALSE, chmod_options |-> "", working_directory |-> "/w"]
RsyncNoDest == [method |-> "rsync", target_host |-> "h", source |-> "/s"]
SwiftPlain == [method |-> "swift", dest_container |-> "c", source |-> "/s",
               os_secrets_file |-> "secrets_yml"]
SwiftBroken == [method |-> "swift", dest_container |-> "c", source |-> "/s",
                os_secrets_file |-> "broken_yml"]
SwiftMissing == [method |-> "swift", dest_container |-> "c", source |-> "/s",
                 os_secrets_file |-> "missing_yml"]
SwiftReplace == [method |-> "swift", dest_container |-> "c", source |-> "/s",
                 os_secrets_file |-> "secrets_yml", source_replacement |-> "/r"]
SwiftReplaceEmpty == [method |-> "swift", dest_container |-> "c", source |-> "/s",
                      os_secrets_file |-> "secrets_yml", source_replacement |-> ""]
FtpUnknown == [method |-> "ftp", target_host |-> "h"]
NoMethod == [target_host |-> "h"]

\* the declarations a deployment_config is made of
Declarations ==
    {RsyncPlain, RsyncDelete, RsyncCwd, RsyncNoDest, SwiftPlain, SwiftBroken,
     SwiftMissing, SwiftReplace, SwiftReplaceEmpty, FtpUnknown, NoMethod}

DeploymentConfigs ==
    UNION {[1..n -> Declarations] : n \in 0..MaxDeclarations}

\* one step of a constructor, of the i-th declaration
Step(name, i) == [step |-> name, decl |-> i]

\* Deployer.__init__ / SwiftDeployer.__init__ for the i-th declaration: the
\* steps it performs in order and the error it ends with ("" if none)
Construct(deployer_config, i) ==
    IF ~Validates(deployer_config, DeployerRequired(deployer_config.method))
    THEN [steps |-> <<Step("validate", i)>>, error |-> "ValidationError"]
    ELSE IF deployer_config.method = "rsync"
    THEN [steps |-> <<Step("validate", i)>>, error |-> ""]
    ELSE IF deployer_config.os_secrets_file \notin DOMAIN SecretsOnDisk
    THEN [steps |-> <<Step("validate", i), Step("open_secrets", i)>>,
          error |-> "IOError"]
    ELSE IF ~Validates(SecretsOnDisk[deployer_config.os_secrets_file], SecretsRequired)
    THEN [steps |-> <<Step("validate", i), Step("open_secrets", i),
                      Step("validate_secrets", i)>>,
          error |-> "ValidationError"]
    ELSE [steps |-> <<Step("validate", i), Step("open_secrets", i),
                      Step("validate_secrets", i)>>,
          error |-> ""]

\* the Deployer object of a declaration
Deployer(deployer_config) ==
    [class |-> deployer_config.method, config |-> deployer_config]

\* RsyncDeployer.DEFAULT_CONFIGS overlaid with the declaration (lines 79-80)
RsyncConfig(deployer_config) ==
    Update([rsync_flags |-> "-surlptDxv", chmod_options |-> None, ssh_command |-> "ssh",
            delete |-> FALSE, working_directory |-> None], deployer_config)

\* faulty variant: --delete is appended whenever the declaration has the key
RsyncCommand_DeleteIfKey(deployer_config) ==
    LET c == RsyncConfig(deployer_config)
    IN <<Arg("rsync", <<>>), Arg("rsync_flags", <<c.rsync_flags>>)>>
       \o (IF Truthy(c.chmod_options) THEN <<Arg("--chmod", <<c.chmod_options>>)>>
           ELSE <<>>)
       \o <<Arg("-e", <<>>), Arg("ssh_command", <<c.ssh_command>>)>>
       \o (IF "delete" \in DOMAIN deployer_config THEN <<Arg("--delete", <<>>)>>
           ELSE <<>>)
       \o <<Arg("src", IF Truthy(c.working_directory)
                       THEN <<"relpath", c.source, c.working_directory>>
                       ELSE <<c.source>>),
            Arg("target", <<c.target_host, c.dest>>)>>

\* the command line of _get_rsync_deployment_command (lines 82-99)
RsyncCommand(deployer_config) ==
    LET c == RsyncConfig(deployer_config)
    IN <<Arg("rsync", <<>>), Arg("rsync_flags", <<c.rsync_flags>>)>>
       \o (IF Truthy(c.chmod_options) THEN <<Arg("--chmod", <<c.chmod_options>>)>>
           ELSE <<>>)
       \o <<Arg("-e", <<>>), Arg("ssh_command", <<c.ssh_command>>)>>
       \o (IF c.delete THEN <<Arg("--delete", <<>>)>> ELSE <<>>)
       \o <<Arg("src", IF Truthy(c.working_directory)
                       THEN <<"relpath", c.source, c.working_directory>>
                       ELSE <<c.source>>),
            Arg("target", <<c.target_host, c.dest>>)>>

\* RsyncDeployer._get_rsync_deployment_command for the i-th deployer
_get_rsync_deployment_command(i, deployer_config) ==
    SubprocessRule("rsync", i, NoId, NoPath, NoPath,
                   [cmd |-> RsyncCommand(deployer_config), shell |-> TRUE,
                    cwd |-> RsyncConfig(deployer_config).working_directory])

\* RsyncDeployer.get_rules / SwiftDeployer.get_rules of the i-th deployer
get_rules(i, deployer) ==
    IF deployer.class = "rsync"
    THEN << LoggingRule("deploying_rsync", i, NoId),
            _get_rsync_deployment_command(i, deployer.config) >>
    ELSE << LoggingRule("deploying_swift", i, NoId),
            PythonRule("_swift_deploy", i, NoId, NoPath, NoPath, NoInfo) >>

buildvars == <<builder, config, store, files, modfiles, plan, pc, phase, installed_dict,
               prev, runs, cache, confreader>>

\* a builder is constructed with a deployment_config; nothing is installed
DeployInit ==
    /\ builder = "singularity"
    /\ config = SingConf(EmptyDict, <<DefA1>>)
    /\ store = [doc |-> "absent", items |-> EmptyDict]
    /\ files = {}
    /\ modfiles = EmptyDict
    /\ plan = <<>>
    /\ pc = 1
    /\ phase = "idle"
    /\ installed_dict = EmptyDict
    /\ prev = NoPrev
    /\ runs = 0
    /\ cache = EmptyDict
    /\ confreader = NotLoaded
    /\ tree = NoTree
    /\ prep = NoPrep
    /\ deployment_config \in DeploymentConfigs
    /\ deployers = <<>>
    /\ dphase = "start"
    /\ trace = <<>>
    /\ deploy_rules = <<>>
    /\ swift = NoSwift

\* deployer_factory, line 214: the list is validated against
\* DEPLOYMENTCONFIG_SCHEMA
ValidateDeploymentConfig ==
    /\ dphase = "start"
    /\ dphase' = IF DeploymentConfigValid(deployment_config) THEN "factory"
                 ELSE "ValidationError"
    /\ UNCHANGED <<buildvars, pathvars, deployment_config, deployers, trace, deploy_rules, swift>>

\* the declaration the loop of line 222 handles next
NextDeclaration == deployment_config[Len(deployers) + 1]

\* one pass of the loop of lines 222-223 that ends without an error: the class
\* is looked up, its constructor runs, the object is appended
Instantiate ==
    /\ dphase = "factory"
    /\ Len(deployers) < Len(deployment_config)
    /\ NextDeclaration.method \in deployer_classes
    /\ Construct(NextDeclaration, Len(deployers) + 1).error = ""
    /\ trace' = trace \o Construct(NextDeclaration, Len(deployers) + 1).steps
    /\ deployers' = Append(deployers, Deployer(NextDeclaration))
    /\ UNCHANGED <<buildvars, pathvars, deployment_config, dphase, deploy_rules, swift>>

\* one pass of the loop in which the lookup of the class raises KeyError
UnknownMethod ==
    /\ dphase = "factory"
    /\ Len(deployers) < Len(deployment_config)
    /\ NextDeclaration.method \notin deployer_classes
    /\ dphase' = "KeyError"
    /\ UNCHANGED <<buildvars, pathvars, deployment_config, deployers, trace, deploy_rules, swift>>

\* one pass of the loop in which the constructor raises
ConstructorFails ==
    /\ dphase = "factory"
    /\ Len(deployers) < Len(deployment_config)
    /\ NextDeclaration.method \in deployer_classes
    /\ Construct(NextDeclaration, Len(deployers) + 1).error # ""
    /\ trace' = trace \o Construct(NextDeclaration, Len(deployers) + 1).steps
    /\ dphase' = Construct(NextDeclaration, Len(deployers) + 1).error
    /\ UNCHANGED <<buildvars, pathvars, deployment_config, deployers, deploy_rules, swift>>

\* line 225: the loop is over, the deployers are returned
ReturnDeployers ==
    /\ dphase = "factory"
    /\ Len(deployers) = Len(deployment_config)
    /\ dphase' = "returned"
    /\ UNCHANGED <<buildvars, pathvars, deployment_config, deployers, trace, deploy_rules, swift>>

\* the builder collects the rules of the deployers, in order
GetDeployRules ==
    /\ dphase = "returned"
    /\ deploy_rules' = Flatten([i \in 1..Len(deployers) |-> get_rules(i, deployers[i])])
    /\ dphase' = "planned"
    /\ UNCHANGED <<buildvars, pathvars, deployment_config, deployers, trace, swift>>

\* ---------------------------------------------------------------- _swift_deploy
\* one triple os.walk yields: a directory, its sub-directories, its other entries
WalkEntry(root_dir, subdirectories, file_list) ==
    [root_dir |-> root_dir, subdirectories |-> subdirectories, file_list |-> file_list]

\* os.walk(source_dir) for the trees the source directory can hold; a path is
\* the sequence of its components, each written with its leading separator
Walks(source_dir) ==
    { << WalkEntry(<<source_dir>>, <<>>, <<>>) >>,
      << WalkEntry(<<source_dir>>, <<>>, <<"/f">>) >>,
      << WalkEntry(<<source_dir>>, <<"/e">>, <<"/f", "/g">>),
         WalkEntry(<<source_dir, "/e">>, <<>>, <<>>) >>,
      << WalkEntry(<<source_dir>>, <<source_dir>>, <<>>),
         WalkEntry(<<source_dir, source_dir>>, <<"/e">>, <<"/f">>),
         WalkEntry(<<source_dir, source_dir, "/e">>, <<>>, <<>>) >> }

\* an element of the list 'objects' (lines 161-173); path None is <<>>
UploadObject(path, name, dir_marker) ==
    [path |-> path, name |-> name, dir_marker |-> dir_marker]

\* lines 160-173: the objects of one triple of the walk
ObjectsOf(entry) ==
    IF entry.subdirectories \o entry.file_list = <<>>
    THEN << UploadObject(<<>>, entry.root_dir, TRUE) >>
    ELSE [k \in 1..Len(entry.file_list) |->
            UploadObject(entry.root_dir \o <<entry.file_list[k]>>,
                         entry.root_dir \o <<entry.file_list[k]>>, FALSE)]

\* faulty variant: every occurrence is replaced
ReplaceFirst_All(name, old, new) ==
    [k \in 1..Len(name) |-> IF name[k] = old THEN new ELSE name[k]]

\* str.replace(old, new, 1): the first occurrence is replaced
ReplaceFirst(name, old, new) ==
    [k \in 1..Len(name) |->
        IF name[k] = old /\ \A j \in 1..(k - 1) : name[j] # old THEN new ELSE name[k]]

\* lines 175-178: the names rewritten when source_replacement is set
Renamed(objects, deployer_config) ==
    IF Truthy(Get(deployer_config, "source_replacement", None))
    THEN [k \in 1..Len(objects) |->
            [objects[k] EXCEPT !.name = ReplaceFirst(@, deployer_config.source,
                                                    deployer_config.source_replacement)]]
    ELSE objects

\* lines 157-178: the objects of the whole walk
SwiftObjects(deployer_config, walk) ==
    Renamed(Flatten([k \in 1..Len(walk) |-> ObjectsOf(walk[k])]), deployer_config)

\* one result of swift.upload
UploadResult(action, success) == [action |-> action, success |-> success]

\* what swift.upload can yield for the objects: the result of creating the
\* container, then one result per object, each a success or a failure
UploadResults(objects) ==
    { [k \in 1..(Len(objects) + 1) |->
          UploadResult(IF k = 1 THEN "create_container"
                       ELSE IF objects[k - 1].dir_marker THEN "create_dir_marker"
                       ELSE "upload_object",
                       ok[k])] : ok \in [1..(Len(objects) + 1) -> BOOLEAN] }

\* faulty variant: only the result of the last object decides
UploadOutcome_LastOnly(upload_results) ==
    IF ~upload_results[Len(upload_results)].success THEN "failed" ELSE "ok"

\* lines 188-200: the loop over the results raises at the first failure
UploadOutcome(upload_results) ==
    IF \E k \in 1..Len(upload_results) : ~upload_results[k].success THEN "failed"
    ELSE "ok"

\* the rule of the i-th deployer, a SwiftDeployer, is executed: _swift_deploy
\* opens the service and stats the container (lines 151-155); the stat raises
\* or returns
SwiftStat ==
    /\ dphase = "planned"
    /\ swift.stage = "idle"
    /\ \E i \in 1..Len(deployers) : \E reachable \in BOOLEAN :
          /\ deployers[i].class = "swift"
          /\ swift' = [swift EXCEPT !.deployer = i,
                                    !.stage = IF reachable THEN "connected" ELSE "failed",
                                    !.events = Append(@, "stat")]
    /\ UNCHANGED <<buildvars, pathvars, deployment_config, deployers, dphase, trace, deploy_rules>>

\* lines 157-182: the source tree is walked and the upload objects are built
SwiftWalk ==
    /\ swift.stage = "connected"
    /\ \E walk \in Walks(deployers[swift.deployer].config.source) :
          swift' = [swift EXCEPT !.stage = "walked",
                                 !.walk = walk,
                                 !.objects = SwiftObjects(deployers[swift.deployer].config,
                                                          walk),
                                 !.events = Append(@, "walk")]
    /\ UNCHANGED <<buildvars, pathvars, deployment_config, deployers, dphase, trace, deploy_rules>>

\* lines 187-200: every object is uploaded, then the results are examined
SwiftUpload ==
    /\ swift.stage = "walked"
    /\ \E upload_results \in UploadResults(swift.objects) :
          swift' = [swift EXCEPT !.stage = UploadOutcome(upload_results),
                                 !.results = upload_results,
                                 !.events = Append(@, "upload")]
    /\ UNCHANGED <<buildvars, pathvars, deployment_config, deployers, dphase, trace, deploy_rules>>

DeployNext ==
    \/ ValidateDeploymentConfig
    \/ Instantiate
    \/ UnknownMethod
    \/ ConstructorFails
    \/ ReturnDeployers
    \/ GetDeployRules
    \/ SwiftStat
    \/ SwiftWalk
    \/ SwiftUpload

DeploySpec == DeployInit /\ [][DeployNext]_vars

\* ---------------------------------------------------------------- path preparation
\* the components os.path.join puts into a path; each component is a tuple
Components(path) ==
    << <<path.root>> >>
    \o (IF path.name # "" THEN << <<path.name>> >> ELSE <<>>)
    \o (IF path.tag # "" THEN << <<path.tag>> >> ELSE <<>>)
    \o (IF path.sub # "" THEN << <<path.sub>> >> ELSE <<>>)
    \o (IF path.file # <<>> THEN << path.file >> ELSE <<>>)

\* path is p or lies below p
Below(p, path) == Len(p) <= Len(path) /\ SubSeq(path, 1, Len(p)) = p

\* os.path.isdir
isdir(t, p) == p \in t.dirs

\* os.path.dirname
dirname(p) == SubSeq(p, 1, Len(p) - 1)

\* _clean_stage, lines 210-212: shutil.rmtree(stage_path)
_clean_stage(t, stage_path) ==
    [dirs |-> {d \in t.dirs : ~Below(stage_path, d)},
     files |-> {f \in t.files : ~Below(stage_path, f)}]

\* Builder._makedirs: the directory and its missing parents are created
_makedirs(t, p) == [t EXCEPT !.dirs = @ \cup {SubSeq(p, 1, k) : k \in 1..Len(p)}]

\* lines 216-219
CleanIfDir(t, stage_path) ==
    IF isdir(t, stage_path) THEN _clean_stage(t, stage_path) ELSE t

\* lines 223-224 and 226-227
MakeUnlessDir(t, p) == IF ~isdir(t, p) THEN _makedirs(t, p) ELSE t

\* faulty variant: a stage directory that exists is kept as it is
_prepare_installation_paths_KeepStage(t, stage_path, install_path, module_path) ==
    MakeUnlessDir(MakeUnlessDir(_makedirs(t, stage_path), dirname(install_path)),
                  module_path)

\* AnacondaBuilder._prepare_installation_paths
_prepare_installation_paths(t, stage_path, install_path, module_path) ==
    MakeUnlessDir(MakeUnlessDir(_makedirs(CleanIfDir(t, stage_path), stage_path),
                                dirname(install_path)),
                  module_path)

\* what a failed or finished installer run leaves in the stage directory
Remains(stage_path) ==
    [dirs |-> {stage_path \o << <<"bin">> >>},
     files |-> {stage_path \o << <<"bin">>, <<"conda">> >>,
                stage_path \o << <<"LICENSE">> >>}]

\* the union of two trees
Merge(t, u) == [dirs |-> t.dirs \cup u.dirs, files |-> t.files \cup u.files]

\* a directory with its parents
Dir(p) == _makedirs(NoTree, p)

\* the file systems the action can meet: the stage directory absent, empty or
\* holding remains; the install root absent, empty or holding an install;
\* the module directory absent, empty or holding a module file
PriorTrees(stage_path, install_path, module_path) ==
    { Merge(Merge(stage, install), module) :
        stage \in {NoTree, Dir(stage_path), Merge(Dir(stage_path), Remains(stage_path))},
        install \in {NoTree, Dir(dirname(install_path)), Dir(install_path)},
        module \in {NoTree, Dir(module_path),
                    [dirs |-> Dir(module_path).dirs,
                     files |-> {module_path \o << <<"1", "lua">> >>}]} }

\* the kwargs of a _prepare_installation_paths rule (lines 294-301)
PrepOf(rule) ==
    [NoPrep EXCEPT !.stage_path = Components(rule.dst),
                   !.install_path = Components(rule.info.install_path),
                   !.module_path = Components(rule.info.module_path)]

\* the _prepare_installation_paths rules of the plan of a first installation
PrepareRules(conf) ==
    {rule \in Range(CondaGetRules(conf, EmptyDict)) :
        rule.op = "_prepare_installation_paths"}

\* an Anaconda builder, one of its path preparation rules and a file system
PrepareInit ==
    /\ builder = "anaconda"
    /\ config \in CondaConfigs
    /\ store = [doc |-> "absent", items |-> EmptyDict]
    /\ files = {}
    /\ modfiles = EmptyDict
    /\ plan = <<>>
    /\ pc = 1
    /\ phase = "idle"
    /\ installed_dict = EmptyDict
    /\ prev = NoPrev
    /\ runs = 0
    /\ cache = EmptyDict
    /\ confreader = NotLoaded
    /\ deployment_config = <<>>
    /\ deployers = <<>>
    /\ dphase = "off"
    /\ trace = <<>>
    /\ deploy_rules = <<>>
    /\ swift = NoSwift
    /\ prep \in {PrepOf(rule) : rule \in PrepareRules(config)}
    /\ tree \in PriorTrees(prep.stage_path, prep.install_path, prep.module_path)

\* the rule is executed
Prepare ==
    /\ prep.stage_path # <<>>
    /\ prep.count < MaxPrepares
    /\ tree' = _prepare_installation_paths(tree, prep.stage_path, prep.install_path,
                                           prep.module_path)
    /\ prep' = [prep EXCEPT !.count = @ + 1,
                            !.fresh = TRUE,
                            !.repeated = prep.fresh,
                            !.cleaned = @ \/ \E f \in tree.files :
                                                 Below(prep.stage_path, f),
                            !.before = tree]
    /\ UNCHANGED <<buildvars, deployvars>>

\* the installer of the next rule runs in the prepared stage directory and
\* fails, leaving what it wrote
InstallerFails ==
    /\ prep.fresh
    /\ prep.count < MaxPrepares
    /\ tree' = Merge(tree, Remains(prep.stage_path))
    /\ prep' = [prep EXCEPT !.fresh = FALSE, !.repeated = FALSE]
    /\ UNCHANGED <<buildvars, deployvars>>

PrepareNext ==
    \/ Prepare
    \/ InstallerFails

PrepareSpec == PrepareInit /\ [][PrepareNext]_vars

\* ---------------------------------------------------------------- reading a plan
Sing == builder = "singularity"

Conda == builder = "anaconda"

\* a plan has just been generated from the state document as it is now
Planned == phase \in {"running", "described"} /\ pc = 1

Blocks(p) == {p[i].blk : i \in 1..Len(p)} \ {0}

RulesOf(p, b) == {i \in 1..Len(p) : p[i].blk = b}

OpsOf(p, b, ops) == {i \in RulesOf(p, b) : p[i].op \in ops}

IdOf(p, b) == p[CHOOSE i \in RulesOf(p, b) : TRUE].id

BlocksOfId(p, id) == {b \in Blocks(p) : IdOf(p, b) = id}

First(p, b) == CHOOSE i \in RulesOf(p, b) : \A j \in RulesOf(p, b) : i <= j

Last(p, b) == CHOOSE i \in RulesOf(p, b) : \A j \in RulesOf(p, b) : j <= i

\* the classification the plan's first message for the target reports
StatusOf(p, b) == p[First(p, b)].op

ModuleOps == {"writing_modulefile", "_write_modulefile"}

RemoveOps == {"removing", "os.remove"}

\* the rules of the previous run that ran to their end
Ran(i) == i < prev.stop

\* the module names the configuration lists
ConfiguredIds(conf) ==
    {<<t.definition.name, t.tag>> : t \in Range(Targets(conf.definitions))}

\* ---------------------------------------------------------------- C1
\* C1: when the previous Singularity run executed every rule of its plan and
\* the configuration has not changed since, the plan generated next holds, for
\* every target, only the "already installed" message and the two module-file
\* rules: no directory, definition, build, copy or state-update rule.
C1_SkipIdempotence ==
    (Sing /\ Planned /\ prev.result = "ok" /\ prev.cfg = config)
        => \A i \in 1..Len(plan) :
              plan[i].blk # 0 => plan[i].op \in {"already_installed"} \cup ModuleOps

C1_Witness ==
    /\ Sing /\ Planned /\ prev.result = "ok" /\ prev.cfg = config
    /\ \E i \in 1..Len(prev.plan) : prev.plan[i].op = "_update_installed_images"
    /\ \E i \in 1..Len(plan) : plan[i].op = "already_installed"

\* ---------------------------------------------------------------- C2
\* the fingerprint of the blk-th environment of the Anaconda configuration
EnvironmentOf(blk) == _create_environment_config(config.environments[blk])

Recorded(id) == id \in DOMAIN store.items

\* C2: an Anaconda target that the store holds with the fingerprint of its
\* entry gets no side-effecting rule: no Process rule, no copy rule, no
\* state-update rule.
C2_UnchangedHasNoSideEffects ==
    (Conda /\ Planned)
        => \A b \in Blocks(plan) :
              (/\ Recorded(EnvironmentOf(b).environment_name)
               /\ store.items[EnvironmentOf(b).environment_name].checksum
                    = EnvironmentOf(b).checksum)
              => \A i \in RulesOf(plan, b) :
                    /\ plan[i].kind # "Process"
                    /\ plan[i].op \notin CopyOps \cup UpdateOps

\* ---------------------------------------------------------------- C3
\* every rule of the previous plan that belongs to the target ran to its end
AllRan(id) == \A i \in 1..Len(prev.plan) : prev.plan[i].id = id => Ran(i)

StaleThenBuilt(b) ==
    /\ StatusOf(prev.plan, b) = "marked_for_update"
    /\ AllRan(IdOf(prev.plan, b))

\* C3: a Singularity target that the previous run classified stale and whose
\* rules all ran to their end, the state update among them, is classified
\* unchanged by the plan generated next from the same configuration, and the
\* recorded checksum is the one the state-update rule carried.
C3_UpdateThenSkip ==
    (Sing /\ Planned /\ prev.cfg = config)
        => \A b \in Blocks(prev.plan) :
              StaleThenBuilt(b)
              => /\ \A b2 \in BlocksOfId(plan, IdOf(prev.plan, b)) :
                        StatusOf(plan, b2) = "already_installed"
                 /\ \A i \in OpsOf(prev.plan, b, UpdateOps) :
                        store.items[prev.plan[i].id].checksum = prev.plan[i].info.checksum

C3_Witness ==
    /\ Sing /\ Planned /\ prev.cfg = config
    /\ \E b \in Blocks(prev.plan) :
          /\ StaleThenBuilt(b)
          /\ StatusOf(plan, b) = "already_installed"

\* ---------------------------------------------------------------- C4
\* C4: in both builders a state update starts only when the copy rules of the
\* same target have run in this run and the copied artifact is in the install
\* root; no state update exists for a target without a copy rule.
C4_RecordAfterCopy ==
    phase = "writing"
        => /\ OpsOf(plan, plan[pc].blk, CopyOps) # {}
           /\ \A i \in OpsOf(plan, plan[pc].blk, CopyOps) :
                 i < pc /\ plan[i].dst \in files

C4_Witness ==
    /\ phase = "writing"
    /\ Sing
    /\ plan[pc].info.image_file \in files
    /\ plan[pc].id \in DOMAIN installed_dict

\* ---------------------------------------------------------------- C5
\* the previous run stopped after the image copy of the target and before any
\* state update of it
StoppedBeforeRecord(b) ==
    /\ \E i \in OpsOf(prev.plan, b, {"copy_file"}) : Ran(i)
    /\ \A i \in 1..Len(prev.plan) :
          (prev.plan[i].op \in UpdateOps /\ prev.plan[i].id = IdOf(prev.plan, b))
          => ~Ran(i)

\* C5: when a Singularity run stops (a failing rule, a kill) after the copy of
\* a target's image and before its state update, the plan generated next from
\* the same configuration classifies the target fresh or stale and holds its
\* build, copy and state-update rules again.
C5_CrashReclassifies ==
    (Sing /\ Planned /\ prev.result \in {"failed", "killed"} /\ prev.cfg = config)
        => \A b \in Blocks(prev.plan) :
              StoppedBeforeRecord(b)
              => /\ StatusOf(plan, b) \in {"not_installed", "marked_for_update"}
                 /\ OpsOf(plan, b, {"singularity_build"}) # {}
                 /\ Cardinality(OpsOf(plan, b, {"copy_file"})) = 2
                 /\ OpsOf(plan, b, UpdateOps) # {}

C5_Witness ==
    /\ Sing /\ Planned /\ prev.result = "killed" /\ prev.cfg = config
    /\ \E b \in Blocks(prev.plan) :
          /\ StoppedBeforeRecord(b)
          /\ StatusOf(plan, b) = "marked_for_update"
          /\ \A i \in OpsOf(plan, b, {"copy_file"}) : plan[i].dst \in files

\* ---------------------------------------------------------------- C6
\* C6: after a kill inside a state update the persisted document is a
\* complete map, the previous one or the new one.
C6_AtomicStateWrite ==
    prev.result = "killed_in_write" => store.doc # "truncated"

\* ---------------------------------------------------------------- C7
FullInstallOps ==
    {"_download_installer", "_prepare_installation_paths", "installer", "_copy_dir",
     "_update_installed_environments"}

\* C7: an Anaconda target that the store holds with another fingerprint gets
\* the install rules of an absent target: download, path preparation,
\* installer run, copy, state update.
C7_StaleGetsFullInstall ==
    (Conda /\ Planned)
        => \A b \in Blocks(plan) :
              (/\ Recorded(EnvironmentOf(b).environment_name)
               /\ store.items[EnvironmentOf(b).environment_name].checksum
                    # EnvironmentOf(b).checksum)
              => FullInstallOps \subseteq {plan[i].op : i \in RulesOf(plan, b)}

\* ---------------------------------------------------------------- C8
RemoveEnabled ==
    /\ "remove_after_update" \in DOMAIN config.config
    /\ config.config.remove_after_update

\* C8: a Singularity plan holds a rule removing the previous image of a
\* target exactly when the target is classified stale and remove_after_update
\* is set and true; the rule then comes after the copy and state-update rules
\* of the target and removes the image path of the record loaded from the store.
C8_PolicyGatedCleanup ==
    (Sing /\ Planned)
        => \A b \in Blocks(plan) :
              /\ OpsOf(plan, b, {"os.remove"}) # {}
                    <=> (StatusOf(plan, b) = "marked_for_update" /\ RemoveEnabled)
              /\ \A r \in OpsOf(plan, b, {"os.remove"}) :
                    /\ \A i \in OpsOf(plan, b, CopyOps \cup UpdateOps) : i < r
                    /\ OpsOf(plan, b, CopyOps) # {}
                    /\ OpsOf(plan, b, UpdateOps) # {}
                    /\ plan[r].dst = store.items[IdOf(plan, b)].image_file

C8_Witness ==
    /\ Sing /\ Planned
    /\ \E b \in Blocks(plan) :
          /\ StatusOf(plan, b) = "marked_for_update"
          /\ \E r \in OpsOf(plan, b, {"os.remove"}) : plan[r].dst \in files

\* ---------------------------------------------------------------- C9
\* C9 as stated: the module-file rule is the last rule of every target.
C9_ModuleFileLast ==
    (Sing /\ Planned)
        => \A b \in Blocks(plan) : plan[Last(plan, b)].op = "_write_modulefile"

\* C9 amended: every target has one module-file rule; no rule of the target
\* follows it unless the target is stale and remove_after_update is enabled,
\* and then exactly the removal message and the os.remove rule follow it.
C9_ModuleFileLastButCleanup ==
    (Sing /\ Planned)
        => \A b \in Blocks(plan) :
              /\ Cardinality(OpsOf(plan, b, {"_write_modulefile"})) = 1
              /\ \A m \in OpsOf(plan, b, {"_write_modulefile"}) :
                    LET after == {i \in RulesOf(plan, b) : i > m}
                    IN IF StatusOf(plan, b) = "marked_for_update" /\ RemoveEnabled
                       THEN /\ after = {m + 1, m + 2}
                            /\ plan[m + 1].op = "removing"
                            /\ plan[m + 2].op = "os.remove"
                       ELSE after = {}

C9_Witness ==
    /\ Sing /\ Planned
    /\ \E b \in Blocks(plan) : plan[Last(plan, b)].op = "os.remove"
    /\ \E b \in Blocks(plan) : plan[Last(plan, b)].op = "_write_modulefile"

\* ---------------------------------------------------------------- C10
ModuleFileOfId(id) == Path("module_path", id[1], "", "", <<id[2], "lua">>)

\* C10: after a Singularity run whose rules all succeeded, the module files
\* on disk are exactly those of the targets of the run's configuration.
C10_DecommissionByAbsence ==
    (Sing /\ phase = "idle" /\ prev.result = "ok")
        => DOMAIN modfiles = {ModuleFileOfId(id) : id \in ConfiguredIds(prev.cfg)}

C10_Witness ==
    /\ Sing /\ phase = "idle" /\ prev.result = "ok"
    /\ modfiles # EmptyDict
    /\ \E id \in DOMAIN store.items :
          /\ id \notin ConfiguredIds(prev.cfg)
          /\ ModuleFileOfId(id) \notin DOMAIN modfiles

\* ---------------------------------------------------------------- C11
\* the number of targets the configuration lists
ConfiguredTargets ==
    IF Sing THEN Len(Targets(config.definitions)) ELSE Len(config.environments)

\* C11: the plan of either builder holds a module-file-generation rule for
\* every configured target, whatever its classification.
C11_ModuleRulePerTarget ==
    Planned
        => \A b \in 1..ConfiguredTargets : OpsOf(plan, b, {"_write_modulefile"}) # {}

\* ---------------------------------------------------------------- C12
\* the module names (environment names) in the order the configuration lists them
ConfiguredOrder ==
    IF Sing
    THEN [b \in 1..ConfiguredTargets |->
            <<Targets(config.definitions)[b].definition.name,
              Targets(config.definitions)[b].tag>>]
    ELSE [b \in 1..ConfiguredTargets |->
            <<config.environments[b].name, config.environments[b].version>>]

\* the rules in front of the first target: the directory rules and, in the
\* Singularity builder, the two rules that clear the module files
GlobalRules == IF Sing THEN SingDirectoryRules \o _get_modulefile_clean_rules
               ELSE CondaDirectoryRules

\* C12: the plan is the global rules (with exactly one module-file clear rule
\* in Singularity), then the rules of the targets in configuration order, and
\* no rule of one target lies between two rules of another target.
C12_PlanInConfigOrder ==
    Planned
        => /\ SubSeq(plan, 1, Len(GlobalRules)) = GlobalRules
           /\ Cardinality({i \in 1..Len(plan) : plan[i].op = "_clean_modules"})
                 = IF Sing THEN 1 ELSE 0
           /\ \A i \in 1..Len(plan) : plan[i].blk = 0 <=> i <= Len(GlobalRules)
           /\ \A i, j \in 1..Len(plan) : i < j => plan[i].blk <= plan[j].blk
           /\ \A b \in Blocks(plan) : IdOf(plan, b) = ConfiguredOrder[b]
           /\ \A i, j, k \in 1..Len(plan) :
                 (i < j /\ j < k /\ plan[i].blk # 0 /\ plan[i].id = plan[k].id)
                 => plan[j].id = plan[i].id

\* ---------------------------------------------------------------- C13
\* the rules of the plan that carry the logical identifier and one of the ops
RulesOfId(p, id, ops) == {i \in 1..Len(p) : p[i].id = id /\ p[i].op \in ops}

\* C13: a plan holds at most one install sequence, at most one state-update
\* rule and at most one module-file-generation rule per logical identifier,
\* also when the configuration lists the identifier twice.
C13_AtMostOnePlanPerTarget ==
    Planned
        => \A b \in Blocks(plan) :
              /\ Cardinality(RulesOfId(plan, IdOf(plan, b),
                                       {"singularity_build", "_copy_dir"})) <= 1
              /\ Cardinality(RulesOfId(plan, IdOf(plan, b), UpdateOps)) <= 1
              /\ Cardinality(RulesOfId(plan, IdOf(plan, b), {"_write_modulefile"})) <= 1

\* ---------------------------------------------------------------- C14
\* an entry with every defaultable field set: the fields it omits are given
\* their default value
SingEntryFilled(definition) ==
    Update([registry |-> "docker.io", docker_user |-> "library",
            docker_image |-> definition.name, debug |-> FALSE, sudo |-> FALSE,
            fakeroot |-> FALSE, command_collections |-> <<>>,
            flag_collections |-> <<>>], definition)

CondaEntryFilled(environment) ==
    Update([miniconda |-> TRUE, python_version |-> 3, installer_version |-> "latest",
            pip_packages |-> <<>>, conda_packages |-> <<>>], environment)

Entries(b, conf) == IF b = "singularity" THEN conf.definitions ELSE conf.environments

EntryFilled(b, entry) ==
    IF b = "singularity" THEN SingEntryFilled(entry) ELSE CondaEntryFilled(entry)

\* the two configurations differ at most in entries that omit a field where
\* the other sets it to its default value
SameUpToDefaults(b, c1, c2) ==
    /\ Len(Entries(b, c1)) = Len(Entries(b, c2))
    /\ \A i \in 1..Len(Entries(b, c1)) :
          EntryFilled(b, Entries(b, c1)[i]) = EntryFilled(b, Entries(b, c2)[i])
    /\ b = "singularity" => /\ c1.config = c2.config
                            /\ c1.command_collections = c2.command_collections
                            /\ c1.flag_collections = c2.flag_collections

\* the fingerprint the generator computes for the blk-th target of the
\* configuration
FingerprintOf(blk) ==
    IF Sing
    THEN _get_image_config(Targets(config.definitions)[blk].tag,
                           Targets(config.definitions)[blk].definition,
                           config.command_collections,
                           config.flag_collections).checksum
    ELSE EnvironmentOf(blk).checksum

\* C14: after a run that installed every target, a configuration that differs
\* only by omission against explicit default gives every target the recorded
\* fingerprint, and the Singularity plan classifies it unchanged.
C14_DefaultsBeforeHashing ==
    (Planned /\ prev.result = "ok" /\ SameUpToDefaults(builder, prev.cfg, config))
        => \A b \in Blocks(plan) :
              /\ FingerprintOf(b) = store.items[IdOf(plan, b)].checksum
              /\ Sing => StatusOf(plan, b) = "already_installed"

\* ---------------------------------------------------------------- C15
TargetOfId(conf, id) ==
    CHOOSE t \in Range(Targets(conf.definitions)) : <<t.definition.name, t.tag>> = id

\* the fields of a target that decide what is built: docker coordinates, the
\* commands of the referenced collections, the boolean options
BuildFields(conf, t) ==
    [registry |-> Get(t.definition, "registry", "docker.io"),
     docker_user |-> Get(t.definition, "docker_user", "library"),
     docker_image |-> Get(t.definition, "docker_image", t.definition.name),
     commands |-> CombineCommands(Get(t.definition, "command_collections", <<>>),
                                  conf.command_collections),
     debug |-> Get(t.definition, "debug", FALSE),
     sudo |-> Get(t.definition, "sudo", FALSE),
     fakeroot |-> Get(t.definition, "fakeroot", FALSE)]

\* the flags of the referenced flag collections
FlagFields(conf, t) ==
    CombineFlags(Get(t.definition, "flag_collections", <<>>), conf.flag_collections)

\* both entries reference the same flag collections and the collections'
\* content differs
FlagContentChanged(conf1, t1, conf2, t2) ==
    /\ Get(t1.definition, "flag_collections", <<>>)
          = Get(t2.definition, "flag_collections", <<>>)
    /\ FlagFields(conf1, t1) # FlagFields(conf2, t2)

\* the target of block b was installed by the previous run
InstalledBefore(b) ==
    /\ prev.result = "ok"
    /\ IdOf(plan, b) \in ConfiguredIds(prev.cfg)

\* C15 as stated: for an installed target, a change of the docker registry,
\* user or image, of the content of a referenced command or flag collection,
\* or of a boolean option makes the next plan classify the target stale.
C15_FingerprintSensitivity ==
    (Sing /\ Planned)
        => \A b \in Blocks(plan) :
              (/\ InstalledBefore(b)
               /\ \/ BuildFields(prev.cfg, TargetOfId(prev.cfg, IdOf(plan, b)))
                        # BuildFields(config, Targets(config.definitions)[b])
                  \/ FlagContentChanged(prev.cfg, TargetOfId(prev.cfg, IdOf(plan, b)),
                                        config, Targets(config.definitions)[b]))
              => StatusOf(plan, b) = "marked_for_update"

\* C15 amended: the same for the docker coordinates, the content of a
\* referenced command collection and the boolean options; the flag
\* collections are not among the fields whose change makes the target stale.
C15_BuildFieldSensitivity ==
    (Sing /\ Planned)
        => \A b \in Blocks(plan) :
              (/\ InstalledBefore(b)
               /\ BuildFields(prev.cfg, TargetOfId(prev.cfg, IdOf(plan, b)))
                     # BuildFields(config, Targets(config.definitions)[b]))
              => StatusOf(plan, b) = "marked_for_update"

C15_Witness ==
    /\ Sing /\ Planned
    /\ \E b \in Blocks(plan) :
          /\ InstalledBefore(b)
          /\ BuildFields(prev.cfg, TargetOfId(prev.cfg, IdOf(plan, b))).commands
                # BuildFields(config, Targets(config.definitions)[b]).commands
          /\ StatusOf(plan, b) = "marked_for_update"

\* ---------------------------------------------------------------- C16
\* the entry's value if the entry sets the option, else the global value,
\* else false
EntryOverridesGlobal(option, entry, general) ==
    IF option \in DOMAIN entry THEN entry[option] ELSE Get(general, option, FALSE)

\* C16: the build command of a target runs under sudo, with -d, with
\* --fakeroot exactly when the option resolves to true as an entry-level
\* override of the global value.
C16_OptionOverride ==
    (Sing /\ Planned)
        => \A b \in Blocks(plan) : \A i \in OpsOf(plan, b, {"singularity_build"}) :
              /\ ("sudo" \in Range(plan[i].info.cmd))
                    = EntryOverridesGlobal("sudo", Targets(config.definitions)[b].definition,
                                           config.config)
              /\ ("-d" \in Range(plan[i].info.cmd))
                    = EntryOverridesGlobal("debug", Targets(config.definitions)[b].definition,
                                           config.config)
              /\ ("--fakeroot" \in Range(plan[i].info.cmd))
                    = EntryOverridesGlobal("fakeroot",
                                           Targets(config.definitions)[b].definition,
                                           config.config)

\* ---------------------------------------------------------------- C17
\* the install path the record of a target names
InstallPathOf(record) ==
    IF Sing THEN record.image_file ELSE _get_install_path(record)

\* C17: a target whose recorded fingerprint differs from the one of its entry
\* is installed to a path other than the recorded one, also when the two
\* short fingerprints are equal.
C17_NoCollisionOnPrefixClash ==
    Planned
        => \A b \in Blocks(plan) : \A u \in OpsOf(plan, b, UpdateOps) :
              (/\ Recorded(plan[u].id)
               /\ store.items[plan[u].id].checksum # plan[u].info.checksum)
              => InstallPathOf(plan[u].info) # InstallPathOf(store.items[plan[u].id])

\* ---------------------------------------------------------------- C18
BuildOpsOfEnvironment ==
    {"installer", "conda_install", "_copy_dir", "_update_installed_environments"}

\* the cached installer of the environment does not have the checksum the
\* configuration expects for it
InstallerMismatch(c) ==
    /\ _get_installer_path(c) \in DOMAIN cache
    /\ ~InstallerVerified(config, _get_installer_path(c), cache)

\* C18: an Anaconda plan holds no installer run, package install, copy or
\* state-update rule for a target whose installer artifact does not match its
\* expected checksum.
C18_ChecksumFailureAborts ==
    (Conda /\ Planned)
        => \A b \in Blocks(plan) :
              InstallerMismatch(EnvironmentOf(b))
              => OpsOf(plan, b, BuildOpsOfEnvironment) = {}

\* ---------------------------------------------------------------- C19
HasUnknownMethod ==
    /\ DeploymentConfigValid(deployment_config)
    /\ \E i \in 1..Len(deployment_config) :
          deployment_config[i].method \notin deployer_classes

\* C19: when some declaration of the list, at whatever position, names a
\* method other than rsync and swift, deployer_factory does not return and no
\* constructor step of any declaration runs and no Deployer object exists.
C19_UnknownMethodRejectedUpFront ==
    HasUnknownMethod
        => /\ dphase \notin {"returned", "planned"}
           /\ trace = <<>>
           /\ deployers = <<>>

\* ---------------------------------------------------------------- C20
\* the Process rules among the rules of the i-th deployer
ProcessRulesOf(i) ==
    {j \in 1..Len(deploy_rules) :
        deploy_rules[j].blk = i /\ deploy_rules[j].kind = "Process"}

Opts(cmd) == {cmd[k].opt : k \in 1..Len(cmd)}

\* C20: every rsync declaration gives exactly one Process rule; its command
\* has --delete exactly when the declaration's delete is true, --chmod=<mode>
\* exactly when the declaration has a non-empty chmod_options, and then with
\* that mode, and ends with the source directory and host:dest.
C20_RsyncCommand ==
    dphase = "planned"
        => \A i \in 1..Len(deployers) :
              deployers[i].class = "rsync"
              => /\ Cardinality(ProcessRulesOf(i)) = 1
                 /\ \A j \in ProcessRulesOf(i) :
                      LET cmd == deploy_rules[j].info.cmd
                          d == deployment_config[i]
                      IN /\ ("--delete" \in Opts(cmd)) = Get(d, "delete", FALSE)
                         /\ ("--chmod" \in Opts(cmd)) = (Get(d, "chmod_options", "") # "")
                         /\ \A k \in 1..Len(cmd) :
                               cmd[k].opt = "--chmod" => cmd[k].val = <<d.chmod_options>>
                         /\ cmd[Len(cmd) - 1].opt = "src"
                         /\ d.source \in Range(cmd[Len(cmd) - 1].val)
                         /\ cmd[Len(cmd)] = Arg("target", <<d.target_host, d.dest>>)

C20_Witness ==
    /\ dphase = "planned"
    /\ \E i, j \in 1..Len(deployers) :
          /\ deployment_config[i] = RsyncDelete
          /\ deployment_config[j] = RsyncCwd
          /\ \E r \in ProcessRulesOf(i) : "--delete" \in Opts(deploy_rules[r].info.cmd)
          /\ \E r \in ProcessRulesOf(j) : "--delete" \notin Opts(deploy_rules[r].info.cmd)

\* ---------------------------------------------------------------- C21
\* the regular files and the directories without entries of the walked tree
FilesOfWalk(walk) ==
    UNION { {walk[k].root_dir \o <<walk[k].file_list[j]>> :
                j \in 1..Len(walk[k].file_list)} : k \in 1..Len(walk) }

EmptyDirsOfWalk(walk) ==
    {walk[k].root_dir : k \in {j \in 1..Len(walk) :
                                  walk[j].subdirectories = <<>> /\ walk[j].file_list = <<>>}}

\* the destination key of a source path: the path, its leading source
\* directory replaced when a replacement is declared
KeyOf(deployer_config, path) ==
    IF Get(deployer_config, "source_replacement", "") # ""
    THEN <<deployer_config.source_replacement>> \o Tail(path)
    ELSE path

UnitsOf(path) == {k \in 1..Len(swift.objects) : swift.objects[k].path = path}

MarkersOf(name) ==
    {k \in 1..Len(swift.objects) :
        swift.objects[k].dir_marker /\ swift.objects[k].name = name}

C22_NoPartialSuccess ==
    /\ swift.stage = "ok" => \A k \in 1..Len(swift.results) : swift.results[k].success
    /\ (\E k \in 1..Len(swift.results) : ~swift.results[k].success)
          => swift.stage = "failed"
    /\ swift.stage = "ok" => swift.events = <<"stat", "walk", "upload">>
    /\ \A k \in 1..Len(swift.events) :
          swift.events[k] = "upload" => \E j \in 1..(k - 1) : swift.events[j] = "stat"

C22_Witness ==
    /\ swift.stage = "failed"
    /\ Len(swift.results) >= 3
    /\ ~swift.results[2].success
    /\ swift.results[Len(swift.results)].success

\* ---------------------------------------------------------------- C23
\* the identifier a step sets the record of: that of the state update the
\* step starts or ends, NoId for every other step
Updating == IF phase = "writing" \/ phase' = "writing" THEN plan[pc].id ELSE NoId

\* the records of the store: those of the document, or those of the map in
\* memory while the document is being rewritten
RecordsHeld == IF phase = "writing" THEN installed_dict ELSE store.items

\* C23: a state update sets the record of its own identifier only, and no step
\* of any run removes a record from the store: the record of every other
\* identifier held before a step is held, unchanged, after it.
C23_RecordsNeverDeleted ==
    [][\A id \in DOMAIN RecordsHeld \ {Updating} :
          /\ id \in DOMAIN RecordsHeld'
          /\ RecordsHeld'[id] = RecordsHeld[id]]_vars

\* ---------------------------------------------------------------- C24
\* the registry the configuration gives the target of identifier id
RegistryOfId(conf, id) == Get(TargetOfId(conf, id).definition, "registry", "docker.io")

\* C24: the environment of a target's build process holds a registry username
\* and password exactly when the credentials hold a pair for the target's own
\* registry, and then it is that registry's pair; the pair of another registry
\* is never in it.
C24_CredentialsOnlyForRegistry ==
    (Sing /\ Planned)
        => \A i \in 1..Len(plan) :
              plan[i].op = "singularity_build"
              => /\ ("username" \in DOMAIN plan[i].info.env
                        <=> RegistryOfId(config, plan[i].id) \in DOMAIN config.auths)
                 /\ ("password" \in DOMAIN plan[i].info.env
                        <=> RegistryOfId(config, plan[i].id) \in DOMAIN config.auths)
                 /\ "username" \in DOMAIN plan[i].info.env
                        => /\ plan[i].info.env.username
                                = config.auths[RegistryOfId(config, plan[i].id)].username
                           /\ plan[i].info.env.password
                                = config.auths[RegistryOfId(config, plan[i].id)].password

C24_Witness ==
    /\ Sing /\ Planned
    /\ \E i, j \in 1..Len(plan) :
          /\ i < j
          /\ plan[i].op = "singularity_build" /\ plan[j].op = "singularity_build"
          /\ "username" \in DOMAIN plan[i].info.env
          /\ plan[i].info.env.username = "uq"
          /\ "username" \notin DOMAIN plan[j].info.env
          /\ config.auths # EmptyDict

\* ---------------------------------------------------------------- C25
\* C25: when the module-file rule of a target is about to run and the target's
\* module file already exists, the rule succeeds (and replaces the file).
C25_RegenerationOverwrites ==
    (/\ Sing /\ phase = "running" /\ pc <= Len(plan)
     /\ plan[pc].op = "_write_modulefile"
     /\ ModuleFile(plan[pc]) \in DOMAIN modfiles)
        => CanSucceed(plan[pc])

\* ---------------------------------------------------------------- C26
\* C26: in an Anaconda plan every installer run comes after the download and
\* checksum rule of the same target and installer file, and when the run
\* reaches an installer rule the cached installer file matches the checksum
\* the configuration expects for it, if it expects one.
C26_ChecksumBeforeInstaller ==
    (Conda /\ phase \in {"running", "described"})
        => \A i \in 1..Len(plan) :
              plan[i].op = "installer"
              => /\ \E j \in 1..(i - 1) :
                       /\ plan[j].op = "_download_installer"
                       /\ plan[j].blk = plan[i].blk
                       /\ plan[j].dst = plan[i].src
                 /\ (phase = "running" /\ pc >= i)
                       => /\ plan[i].src \in DOMAIN cache
                          /\ ExpectedChecksum(config, plan[i].src)
                                \in {"", cache[plan[i].src]}

C26_Witness ==
    /\ Conda /\ phase = "idle" /\ prev.result = "failed"
    /\ prev.plan[prev.stop].op = "_download_installer"
    /\ prev.plan[prev.stop].dst \in DOMAIN cache
    /\ ExpectedChecksum(prev.cfg, prev.plan[prev.stop].dst) = "good"
    /\ cache[prev.plan[prev.stop].dst] = "bad"
    /\ \E i \in (prev.stop + 1)..Len(prev.plan) :
          /\ prev.plan[i].op = "installer"
          /\ prev.plan[i].dst \notin files

\* ---------------------------------------------------------------- C27
\* the entry of block b is the entry the previous run installed, and only the
\* content of a flag collection it references differs
OnlyFlagContentChanged(b) ==
    /\ InstalledBefore(b)
    /\ TargetOfId(prev.cfg, IdOf(plan, b)).definition
          = Targets(config.definitions)[b].definition
    /\ prev.cfg.command_collections = config.command_collections
    /\ FlagContentChanged(prev.cfg, TargetOfId(prev.cfg, IdOf(plan, b)),
                          config, Targets(config.definitions)[b])

\* C27: an installed Singularity target of which only the content of a
\* referenced flag collection changed is classified unchanged, gets no build,
\* copy or state-update rule, and its module-file rule carries the new flags.
C27_FlagsOutsideFingerprint ==
    (Sing /\ Planned)
        => \A b \in Blocks(plan) :
              OnlyFlagContentChanged(b)
              => /\ StatusOf(plan, b) = "already_installed"
                 /\ OpsOf(plan, b, {"singularity_build"} \cup CopyOps \cup UpdateOps) = {}
                 /\ OpsOf(plan, b, {"_write_modulefile"}) # {}
                 /\ \A i \in OpsOf(plan, b, {"_write_modulefile"}) :
                       plan[i].info.flags
                          = FlagFields(config, Targets(config.definitions)[b])

C27_Witness ==
    /\ Sing /\ Planned
    /\ \E b \in Blocks(plan) :
          /\ OnlyFlagContentChanged(b)
          /\ StatusOf(plan, b) = "already_installed"
          /\ \E i \in OpsOf(plan, b, {"_write_modulefile"}) :
                plan[i].info.flags = <<"--nv", "--bind">>

\* ---------------------------------------------------------------- C28
\* C28: the path a removal rule of a Singularity plan removes is not the path
\* of the image the same target's copy rule installs and its state-update rule
\* records, and once the removal rule has run the recorded image file exists.
C28_CleanupKeepsNewImage ==
    (Sing /\ Planned)
        => \A b \in Blocks(plan) : \A r \in OpsOf(plan, b, {"os.remove"}) :
              \A u \in OpsOf(plan, b, UpdateOps) :
                 /\ plan[r].dst # plan[u].info.image_file
                 /\ \E c \in OpsOf(plan, b, {"copy_file"}) :
                       plan[c].dst = plan[u].info.image_file /\ plan[c].dst # plan[r].dst

\* ---------------------------------------------------------------- C29
\* the previous run stopped at a failing rule that comes after the clear rule
FailedAfterClear ==
    /\ Sing /\ phase = "idle" /\ prev.result = "failed"
    /\ \E i \in 1..(prev.stop - 1) : prev.plan[i].op = "_clean_modules"

\* the module files whose rule ran before the run stopped
WrittenBeforeStop ==
    {ModuleFile(prev.plan[i]) :
        i \in {j \in 1..(prev.stop - 1) : prev.plan[j].op = "_write_modulefile"}}

\* C29: after a Singularity run that stopped at a failing rule behind the clear
\* rule, the module files on disk are exactly those whose module-file rule ran
\* in that run; a target whose block did not reach its module-file rule has
\* none, installed and unchanged or not.
C29_ModuleFilesAfterFailure ==
    FailedAfterClear
        => /\ DOMAIN modfiles = WrittenBeforeStop
           /\ \A b \in Blocks(prev.plan) :
                 (\A i \in RulesOf(prev.plan, b) :
                     prev.plan[i].op = "_write_modulefile"
                     => /\ i >= prev.stop
                        /\ ModuleFile(prev.plan[i]) \notin WrittenBeforeStop)
                 => ModuleFileOfId(IdOf(prev.plan, b)) \notin DOMAIN modfiles

C29_Witness ==
    /\ FailedAfterClear
    /\ modfiles # EmptyDict
    /\ \E b \in Blocks(prev.plan) :
          /\ StatusOf(prev.plan, b) = "already_installed"
          /\ IdOf(prev.plan, b) \in DOMAIN store.items
          /\ ModuleFileOfId(IdOf(prev.plan, b)) \notin DOMAIN modfiles

\* ---------------------------------------------------------------- C30
\* C30: a second generation of the plan on the same builder instance succeeds
\* and gives the rule sequence of the first, and the documents the instance
\* holds are the documents as loaded.
C30_GenerationRepeatable ==
    /\ phase # "generation_failed"
    /\ phase \in {"described", "described_again"} => confreader = config
    /\ phase = "described_again" => plan = GetRules(builder, config, store.items)

\* ---------------------------------------------------------------- C31
\* C31: right after _prepare_installation_paths has run, whatever the file
\* system held before, the stage directory exists and is empty and the
\* install root and the module directory exist; run directly after itself it
\* leaves the file system as the first run left it.
C31_IdempotentPreparation ==
    (prep.count >= 1 /\ prep.fresh)
        => /\ isdir(tree, prep.stage_path)
           /\ \A e \in tree.dirs \cup tree.files :
                 Below(prep.stage_path, e) => e = prep.stage_path
           /\ isdir(tree, dirname(prep.install_path))
           /\ isdir(tree, prep.module_path)
           /\ prep.repeated => tree = prep.before

C31_Witness ==
    /\ prep.count >= 2 /\ prep.fresh /\ prep.repeated /\ prep.cleaned
    /\ tree = prep.before
    /\ isdir(tree, prep.stage_path)
    /\ tree.files \cap Remains(prep.stage_path).files = {}

====
